---- MODULE Spec2Model ----
(***************************************************************************)
(* The range slider of src/index.tsx as a state machine.                   *)
(*                                                                         *)
(* State: the props the host supplies, the Value Store (inPropsRef), the   *)
(* two Animated thumb offsets, the layout metrics, the gesture ref, the    *)
(* pressed flag, the listener registered on pointerX (a closure over what  *)
(* onPanResponderGrant read), and the callbacks invoked by the last step.  *)
(* What a render only compares with the render before (the identity of     *)
(* onValueChanged, the previously observed external pair) is not state:    *)
(* every render is one step that has both the old and the new props.       *)
(* A handler that calls setPressed leaves a render pending; React runs it  *)
(* (with whatever props the host supplies by then) before the next event.  *)
(*                                                                         *)
(* Pixel quantities are rationals in the source; they are kept exactly as  *)
(* integers in units of 1/Scale pixel, Scale = 2 * (max - min), which makes*)
(* ((v - min) / (max - min)) * (containerWidth - thumbWidth) and           *)
(* thumbWidth / 2 integral.                                                *)
(*                                                                         *)
(* min, max, step, minRange, disableRange and disabled are chosen in Init  *)
(* and stay fixed for the component's lifetime; low, high and the identity *)
(* of onValueChanged are changed by the host at run time.                  *)
(*                                                                         *)
(* ./helpers and ./hooks are imported by src/index.tsx but are not part of *)
(* the sources at hand: clamp, getValueForPosition, isLowCloser,           *)
(* useLowHigh, useWidthLayout and the follower update are modelled from    *)
(* spec.md (sections 3, 4.1, 4.2, 4.4, 4.5, 7).                            *)
(***************************************************************************)
EXTENDS Integers, Sequences, FiniteSets, TLC

\* ----------------------------------------------------------------- bounds
Min == 0
Max == 3
ContainerW == 10
ThumbW == 2
ContainerX == 1

\* <<step, minRange>>: the default minRange, one that is a multiple of step
\* and one that is not
StepAndMinRange == {<<1, 0>>, <<1, 2>>, <<2, 1>>}
\* container-local pointer positions, in pixels: left of the track, on it,
\* half-way between two values, right of it
Xs == {0 - 1, 3, 5, 7, ContainerW + 2}
\* values the host supplies for low / high: inside and outside [min, max]
LowPropVals == {Min - 1, Max - 1}
HighPropVals == {Min + 1, Max + 1}

Scale == 2 * (Max - Min)

\* a prop is the empty set when undefined, {v} when the host passes v
undefined == {}
Val(p) == CHOOSE v \in p : TRUE

VARIABLES
  step, minRange, disableRange, disabled, \* props fixed at construction
  lowProp, highProp,                    \* props the host changes
  inPropsRef,                           \* Value Store: current low, high
  lowThumbX, highThumbX,                \* Animated.Value offsets (scaled)
  gestureStateRef, isPressed,
  renderPending,                        \* a state update awaits its render
  containerWidthRef, thumbWidth,
  listener,                             \* pointerX listener: {} or {closure}
  responder,                            \* TRUE between grant and release/terminate
  follower,                             \* last labelUpdate / notchUpdate
  lastMapped,                           \* history: {} or {the value the last
                                        \* pointer event was mapped to}
  reported,                             \* history: {} outside a session, else
                                        \* {the pair the session last passed to
                                        \* onSliderTouchStart or to
                                        \* onValueChanged(byUser=true)}
  lastOp,                               \* history: the operation of the last step
  calls                                 \* callbacks invoked by the last step

vars == <<step, minRange, disableRange, disabled, lowProp, highProp,
          inPropsRef, lowThumbX, highThumbX,
          gestureStateRef, isPressed, renderPending, containerWidthRef,
          thumbWidth,
          listener, responder, follower, lastMapped, reported,
          lastOp, calls>>

cfgVars == <<step, minRange, disableRange, disabled>>

\* ---------------------------------------------------------------- helpers
Min2(a, b) == IF a <= b THEN a ELSE b
Max2(a, b) == IF a >= b THEN a ELSE b
Abs(a) == IF a < 0 THEN 0 - a ELSE a

clamp(value, lo, hi) == Min2(Max2(value, lo), hi)

\* ((value - min) / (max - min)) * (containerWidth - thumbWidth), scaled
PositionForValue(value, containerWidth, tw) ==
  (value - Min) * (containerWidth - tw) * 2

\* thumbWidth / 2, scaled
HalfThumb(tw) == tw * (Max - Min)

\* inverse linear interpolation, clamped to [min, max], rounded to the
\* nearest multiple of step from min (a half rounds up), clamped to
\* [min, max].  positionInView is scaled.  With no available space the
\* interpolation divides by zero: right of the thumb centre the quotient is
\* +Infinity, which the clamp turns into max, left of it -Infinity, which
\* the clamp turns into min.  (Exactly at the centre it is 0 / 0; Xs holds
\* no such position.)
getValueForPosition(positionInView, containerWidth, tw, st) ==
  LET avail == containerWidth - tw
      num   == positionInView - HalfThumb(tw)
      \* value - min = rawN / rawD, rawD > 0
      rawN  == IF avail < 0 THEN 0 - num ELSE num
      rawD  == 2 * Abs(avail)
      span  == Max - Min
      k     == IF avail = 0
               THEN (IF num > 0 THEN (2 * span + st) \div (2 * st) ELSE 0)
               ELSE LET cN == clamp(rawN, 0, span * rawD)
                    IN  (2 * cN + rawD * st) \div (2 * rawD * st)
  IN  clamp(Min + k * st, Min, Max)

\* the thumb whose centre is closer to the touch; a tie goes to low
isLowCloser(downX, lowPosition, highPosition) ==
  Abs(downX - lowPosition) <= Abs(downX - highPosition)

Call(cb, l, h, byUser) == [cb |-> cb, low |-> l, high |-> h, byUser |-> byUser]

\* ------------------------------------------------------------ state record
\* The handlers are written as functions on a record of the mutable state,
\* so that one step can run a handler and the render it schedules.
Cur ==
  [lowProp |-> lowProp, highProp |-> highProp,
   inPropsRef |-> inPropsRef,
   lowThumbX |-> lowThumbX, highThumbX |-> highThumbX,
   gestureStateRef |-> gestureStateRef, isPressed |-> isPressed,
   renderPending |-> renderPending,
   containerWidthRef |-> containerWidthRef, thumbWidth |-> thumbWidth,
   listener |-> listener, responder |-> responder, follower |-> follower,
   lastMapped |-> lastMapped, reported |-> reported,
   calls |-> <<>>]

Commit(op, s) ==
  /\ lastOp' = op
  /\ lowProp' = s.lowProp
  /\ highProp' = s.highProp
  /\ inPropsRef' = s.inPropsRef
  /\ lowThumbX' = s.lowThumbX
  /\ highThumbX' = s.highThumbX
  /\ gestureStateRef' = s.gestureStateRef
  /\ isPressed' = s.isPressed
  /\ renderPending' = s.renderPending
  /\ containerWidthRef' = s.containerWidthRef
  /\ thumbWidth' = s.thumbWidth
  /\ listener' = s.listener
  /\ responder' = s.responder
  /\ follower' = s.follower
  /\ lastMapped' = s.lastMapped
  /\ reported' = s.reported
  /\ calls' = s.calls
  /\ UNCHANGED cfgVars

\* ------------------------------------------------------------- Value Store
\* (variant: highProp is handed to the store as given)
HighArgAsGiven(hp) == hp

\* the high the component hands to the store: disableRange ? max : highProp
HighArg(hp) == IF disableRange THEN {Max} ELSE hp

\* useLowHigh on a render: the pair observed at the render before is
\* inPropsRefPrev, a defined prop is clamped into [min, max] and written to
\* the store, an undefined one keeps the internal value.
useLowHigh(s, prevLowProp, prevHighProp) ==
  LET lp == s.lowProp
      hp == HighArg(s.highProp)
  IN  [inPropsRefPrev |-> [lowPrev |-> prevLowProp,
                           highPrev |-> HighArg(prevHighProp)],
       inPropsRef |-> [low  |-> IF lp = undefined THEN s.inPropsRef.low
                                ELSE clamp(Val(lp), Min, Max),
                       high |-> IF hp = undefined THEN s.inPropsRef.high
                                ELSE clamp(Val(hp), Min, Max)]]

\* the store's initial content: the props, or the defaults min and max
InitialStore(lp, hp) ==
  [low  |-> IF lp = undefined THEN Min ELSE clamp(Val(lp), Min, Max),
   high |-> IF hp = undefined THEN Max ELSE clamp(Val(hp), Min, Max)]

\* ------------------------------------------------------------ updateThumbs
updateThumbs(s) ==
  IF s.thumbWidth = 0 \/ s.containerWidthRef = 0
  THEN s
  ELSE LET low  == s.inPropsRef.low
           high == s.inPropsRef.high
       IN  [s EXCEPT
             !.highThumbX = IF ~disableRange
                            THEN PositionForValue(high, s.containerWidthRef,
                                                  s.thumbWidth)
                            ELSE @,
             !.lowThumbX = PositionForValue(low, s.containerWidthRef,
                                            s.thumbWidth),
             !.calls = Append(@, Call("onValueChanged", low, high, FALSE))]

\* (variant: only a change of high is looked at)
ExternalSyncEffectHighOnly(s, inPropsRefPrev) ==
  IF s.highProp # undefined /\ s.highProp # inPropsRefPrev.highPrev
  THEN updateThumbs(s)
  ELSE s

\* the effect of lines 133-148
ExternalSyncEffect(s, inPropsRefPrev) ==
  IF \/ (s.lowProp # undefined /\ s.lowProp # inPropsRefPrev.lowPrev)
     \/ (s.highProp # undefined /\ s.highProp # inPropsRefPrev.highPrev)
  THEN updateThumbs(s)
  ELSE s

\* (variant: thumbWidth is missing from the dependencies of updateThumbs)
UpdateThumbsEffectNoThumbWidth(s, newOnValueChanged, prevThumbWidth) ==
  IF newOnValueChanged THEN updateThumbs(s) ELSE s

\* the effect of lines 150-152: runs when updateThumbs is a new function,
\* that is when one of its useCallback dependencies changed (onValueChanged
\* or thumbWidth; the others are fixed)
UpdateThumbsEffect(s, newOnValueChanged, prevThumbWidth) ==
  IF newOnValueChanged \/ s.thumbWidth # prevThumbWidth
  THEN updateThumbs(s)
  ELSE s

\* one render of Slider and the effects it commits; s holds the new props
\* and state, old the ones of the render before
Render(s, old, newOnValueChanged) ==
  LET h == useLowHigh(s, old.lowProp, old.highProp)
  IN  UpdateThumbsEffect(
        ExternalSyncEffect([s EXCEPT !.inPropsRef = h.inPropsRef,
                                     !.renderPending = FALSE],
                           h.inPropsRefPrev),
        newOnValueChanged, old.thumbWidth)

\* -------------------------------------------------------- Drag Controller
\* (variant: minRange is left out of the bounds)
SessionBoundsNoMinRange(isLow, low, high) ==
  [minValue |-> IF isLow THEN Min ELSE low,
   maxValue |-> IF isLow THEN high ELSE Max]

\* minValue and maxValue of a move: the sibling thumb bounds the active one
SessionBounds(isLow, low, high) ==
  [minValue |-> IF isLow THEN Min ELSE low + minRange,
   maxValue |-> IF isLow THEN high - minRange ELSE Max]

\* the value a pointer position is mapped to in a session with closure c
MappedValue(s, c, positionInView) ==
  LET b == SessionBounds(c.isLow, s.inPropsRef.low, s.inPropsRef.high)
  IN  clamp(getValueForPosition(positionInView, c.containerWidth,
                                c.thumbWidth, step),
            b.minValue, b.maxValue)

\* (variant: the test is missing)
NeverSameAsLast(lastValue, value) == FALSE

\* the de-duplication test of a move
SameAsLast(lastValue, value) == lastValue = value

\* (variant: the pair read before the write is the one reported)
handlePositionChangeStalePair(s, c, positionInView) ==
  LET low   == s.inPropsRef.low
      high  == s.inPropsRef.high
      value == MappedValue(s, c, positionInView)
      s0    == [s EXCEPT !.lastMapped = {value}]
  IN  IF SameAsLast(s.gestureStateRef.lastValue, value)
      THEN s0
      ELSE LET availableSpace   == c.containerWidth - c.thumbWidth
               absolutePosition == (value - Min) * availableSpace * 2
               lastPosition     == absolutePosition + HalfThumb(c.thumbWidth)
           IN  [s0 EXCEPT
                 !.gestureStateRef = [@ EXCEPT !.lastValue = value,
                                               !.lastPosition = lastPosition],
                 !.lowThumbX  = IF c.isLow THEN absolutePosition ELSE @,
                 !.highThumbX = IF c.isLow THEN @ ELSE absolutePosition,
                 !.calls = Append(@, Call("onValueChanged", low, high, TRUE)),
                 !.inPropsRef = IF c.isLow THEN [@ EXCEPT !.low = value]
                                ELSE [@ EXCEPT !.high = value],
                 !.reported = {<<low, high>>},
                 !.follower = [position |-> lastPosition, value |-> value]]

\* handlePositionChange of one session; c is what the closure captured at
\* touch-down: isLow, containerWidth, thumbWidth (and containerX)
handlePositionChange(s, c, positionInView) ==
  LET low   == s.inPropsRef.low
      high  == s.inPropsRef.high
      value == MappedValue(s, c, positionInView)
      s0    == [s EXCEPT !.lastMapped = {value}]
  IN  IF SameAsLast(s.gestureStateRef.lastValue, value)
      THEN s0
      ELSE LET availableSpace   == c.containerWidth - c.thumbWidth
               absolutePosition == (value - Min) * availableSpace * 2
               lastPosition     == absolutePosition + HalfThumb(c.thumbWidth)
           IN  [s0 EXCEPT
                 !.gestureStateRef = [@ EXCEPT !.lastValue = value,
                                               !.lastPosition = lastPosition],
                 !.lowThumbX  = IF c.isLow THEN absolutePosition ELSE @,
                 !.highThumbX = IF c.isLow THEN @ ELSE absolutePosition,
                 !.calls = Append(@, Call("onValueChanged",
                                          IF c.isLow THEN value ELSE low,
                                          IF c.isLow THEN high ELSE value,
                                          TRUE)),
                 !.inPropsRef = IF c.isLow THEN [@ EXCEPT !.low = value]
                                ELSE [@ EXCEPT !.high = value],
                 !.reported = {<<IF c.isLow THEN value ELSE low,
                                 IF c.isLow THEN high ELSE value>>},
                 !.follower = [position |-> lastPosition, value |-> value]]

\* setPressed(value): a render is scheduled when the state changes
setPressed(s, value) ==
  [s EXCEPT !.isPressed = value,
            !.renderPending = @ \/ s.isPressed # value]

\* (variant: disableRange is not looked at when the thumb is selected)
GrantSessionNoDisableRange(s, downX) ==
  LET low  == s.inPropsRef.low
      high == s.inPropsRef.high
      containerWidth == s.containerWidthRef
      lowPosition  == HalfThumb(s.thumbWidth)
                      + PositionForValue(low, containerWidth, s.thumbWidth)
      highPosition == HalfThumb(s.thumbWidth)
                      + PositionForValue(high, containerWidth, s.thumbWidth)
      isLow == isLowCloser(downX * Scale, lowPosition, highPosition)
      c  == [isLow |-> isLow, containerWidth |-> containerWidth,
             thumbWidth |-> s.thumbWidth, containerX |-> ContainerX]
      s1 == [setPressed(s, TRUE) EXCEPT
               !.calls = Append(@, Call("onSliderTouchStart", low, high, FALSE)),
               !.reported = {<<low, high>>},
               !.gestureStateRef = [@ EXCEPT !.isLow = isLow]]
      s2 == handlePositionChange(s1, c, downX * Scale)
  IN  [s2 EXCEPT !.listener = {c}]

\* the body of onPanResponderGrant after its two early returns
GrantSession(s, downX) ==
  LET low  == s.inPropsRef.low
      high == s.inPropsRef.high
      containerWidth == s.containerWidthRef
      lowPosition  == HalfThumb(s.thumbWidth)
                      + PositionForValue(low, containerWidth, s.thumbWidth)
      highPosition == HalfThumb(s.thumbWidth)
                      + PositionForValue(high, containerWidth, s.thumbWidth)
      isLow == disableRange \/ isLowCloser(downX * Scale, lowPosition, highPosition)
      c  == [isLow |-> isLow, containerWidth |-> containerWidth,
             thumbWidth |-> s.thumbWidth, containerX |-> ContainerX]
      s1 == [setPressed(s, TRUE) EXCEPT
               !.calls = Append(@, Call("onSliderTouchStart", low, high, FALSE)),
               !.reported = {<<low, high>>},
               !.gestureStateRef = [@ EXCEPT !.isLow = isLow]]
      s2 == handlePositionChange(s1, c, downX * Scale)
  IN  [s2 EXCEPT !.listener = {c}]

\* onPanResponderGrant
Grant(downX, numberActiveTouches) ==
  /\ ~responder
  /\ ~renderPending
  /\ LET s0 == [Cur EXCEPT !.responder = TRUE]
     IN  IF disabled \/ numberActiveTouches > 1
         THEN Commit("grant", s0)
         ELSE Commit("grant", GrantSession(s0, downX))

\* (variant: every move selects the thumb closer to the pointer again)
MoveReselect(moveX) ==
  /\ responder
  /\ ~renderPending
  /\ ~disabled
  /\ IF listener = {}
     THEN Commit("move", Cur)
     ELSE LET c == Val(listener)
              positionInView == (moveX - c.containerX) * Scale
              lowPosition  == HalfThumb(c.thumbWidth)
                              + PositionForValue(inPropsRef.low, c.containerWidth,
                                                 c.thumbWidth)
              highPosition == HalfThumb(c.thumbWidth)
                              + PositionForValue(inPropsRef.high, c.containerWidth,
                                                 c.thumbWidth)
              d == [c EXCEPT !.isLow = disableRange
                                \/ isLowCloser(positionInView, lowPosition,
                                               highPosition)]
          IN  Commit("move", handlePositionChange(Cur, d, positionInView))

\* onPanResponderMove: Animated.event sets pointerX, whose listener (if any)
\* runs handlePositionChange; undefined while disabled
Move(moveX) ==
  /\ responder
  /\ ~renderPending
  /\ ~disabled
  /\ IF listener = {}
     THEN Commit("move", Cur)
     ELSE LET c == Val(listener)
          IN  Commit("move", handlePositionChange(Cur, c, (moveX - c.containerX) * Scale))

\* onPanResponderRelease
Release ==
  /\ responder
  /\ ~renderPending
  /\ Commit("release", [setPressed(Cur, FALSE) EXCEPT
               !.responder = FALSE,
               !.reported = {},
               !.calls = Append(@, Call("onSliderTouchEnd", inPropsRef.low,
                                        inPropsRef.high, FALSE))])

\* onPanResponderTerminate: trueFunc
Terminate ==
  /\ responder
  /\ ~renderPending
  /\ Commit("terminate", [Cur EXCEPT !.responder = FALSE, !.reported = {}])

\* the render a state update scheduled, with the props unchanged
Rerender ==
  /\ renderPending
  /\ Commit("render", Render(Cur, Cur, FALSE))

\* ------------------------------------------------------------------ layout
\* handleContainerLayout = useWidthLayout(containerWidthRef, updateThumbs):
\* a new width is stored in the ref and the callback runs
ContainerLayout(width) ==
  /\ ~renderPending
  /\ containerWidthRef # width
  /\ Commit("containerLayout", updateThumbs([Cur EXCEPT !.containerWidthRef = width]))

\* handleThumbLayout: setThumbWidth, then the render it schedules
ThumbLayout(width) ==
  /\ ~renderPending
  /\ thumbWidth # width
  /\ Commit("thumbLayout", Render([Cur EXCEPT !.thumbWidth = width], Cur, FALSE))

\* -------------------------------------------------------------------- host
\* the host renders the component with a new low / high
SetLowProp(p) ==
  /\ p # lowProp
  /\ Commit("low", Render([Cur EXCEPT !.lowProp = p], Cur, FALSE))

SetHighProp(p) ==
  /\ p # highProp
  /\ Commit("high", Render([Cur EXCEPT !.highProp = p], Cur, FALSE))

\* the host renders with a new function as onValueChanged
SetOnValueChanged ==
  Commit("onValueChanged", Render(Cur, Cur, TRUE))

\* ------------------------------------------------------------ specification
LowProps == {undefined} \cup {{v} : v \in LowPropVals}
HighProps == {undefined} \cup {{v} : v \in HighPropVals}

Init ==
  /\ \E c \in StepAndMinRange : step = c[1] /\ minRange = c[2]
  /\ disableRange \in BOOLEAN
  /\ lowProp \in LowProps
  /\ highProp \in HighProps
  /\ disabled \in BOOLEAN
  /\ inPropsRef = InitialStore(lowProp, HighArg(highProp))
  /\ lowThumbX = 0
  /\ highThumbX = 0
  /\ gestureStateRef = [isLow |-> TRUE, lastValue |-> 0, lastPosition |-> 0]
  /\ isPressed = FALSE
  /\ renderPending = FALSE
  /\ containerWidthRef = 0
  /\ thumbWidth = 0
  /\ listener = {}
  /\ responder = FALSE
  /\ follower = [position |-> 0, value |-> 0]
  /\ lastMapped = {}
  /\ reported = {}
  /\ lastOp = "construct"
  /\ calls = <<>>

Next ==
  \/ \E x \in Xs, n \in {1, 2} : Grant(x, n)
  \/ \E x \in Xs : Move(x + ContainerX)
  \/ Release
  \/ Terminate
  \/ Rerender
  \/ ContainerLayout(ContainerW)
  \/ ThumbLayout(ThumbW)
  \/ \E p \in LowProps : SetLowProp(p)
  \/ \E p \in HighProps : SetHighProp(p)
  \/ SetOnValueChanged

Spec == Init /\ [][Next]_vars

\* ------------------------------------------------------------------ claims
Low == inPropsRef.low
High == inPropsRef.high

Called(cb) == \E i \in 1..Len(calls) : calls[i].cb = cb

\* onValueChanged(.., .., true) was invoked by the last step
DragUpdated ==
  \E i \in 1..Len(calls) : calls[i].cb = "onValueChanged" /\ calls[i].byUser

\* how often onValueChanged(.., .., false) was invoked by the last step
ResyncCalls ==
  Cardinality({i \in 1..Len(calls) :
                 calls[i].cb = "onValueChanged" /\ ~calls[i].byUser})

LayoutKnown == containerWidthRef > 0 /\ thumbWidth > 0

RangeOK == Low <= High /\ High - Low >= minRange

LowThumbSynced ==
  lowThumbX = PositionForValue(Low, containerWidthRef, thumbWidth)

HighThumbSynced ==
  highThumbX = PositionForValue(High, containerWidthRef, thumbWidth)

\* C1: from a state with low <= high and high - low >= minRange, every
\* accepted drag update (a step that invokes onValueChanged with byUser=true)
\* ends with low <= high and high - low >= minRange.
C1_RangeInvariant == [][(RangeOK /\ DragUpdated') => RangeOK']_vars

\* a drag has just pushed the low thumb against high - minRange
C1_Witness ==
  /\ lastOp = "move"
  /\ DragUpdated
  /\ gestureStateRef.isLow
  /\ minRange > 0
  /\ LayoutKnown
  /\ Low = High - minRange
  /\ Low > Min

\* C2: in every reachable state min <= low <= high <= max.
C2_DomainInvariant == Min <= Low /\ Low <= High /\ High <= Max

\* C3: while disabled, no step of a touch gesture sets the pressed state,
\* changes low or high, or invokes onValueChanged(byUser=true),
\* onSliderTouchStart or onSliderTouchEnd.
C3_DisabledGestureSilent ==
  [][disabled =>
       /\ ~isPressed'
       /\ ~DragUpdated'
       /\ ~Called("onSliderTouchStart")'
       /\ ~Called("onSliderTouchEnd")'
       /\ (lastOp' \in {"grant", "move", "release", "terminate"}
             => inPropsRef' = inPropsRef)]_vars

\* C4: a move that is mapped to the value the pointer event before it (a
\* move or the touch-down) was mapped to invokes no onValueChanged and
\* changes neither the thumb offsets, nor the store, nor the follower, nor
\* the gesture ref.
C4_Deduplication ==
  [][(/\ lastOp' = "move"
      /\ listener # {}
      /\ lastMapped # {}
      /\ lastMapped' = lastMapped)
       => /\ ~Called("onValueChanged")'
          /\ lowThumbX' = lowThumbX
          /\ highThumbX' = highThumbX
          /\ inPropsRef' = inPropsRef
          /\ follower' = follower
          /\ gestureStateRef' = gestureStateRef]_vars

\* a move of a live session has just been skipped: it mapped to the value
\* the session last recorded, which is the active thumb's value
C4_Witness ==
  /\ lastOp = "move"
  /\ responder /\ isPressed /\ listener # {}
  /\ LayoutKnown
  /\ calls = <<>>
  /\ lastMapped = {gestureStateRef.lastValue}
  /\ gestureStateRef.lastValue = (IF gestureStateRef.isLow THEN Low ELSE High)
  /\ gestureStateRef.lastValue > Min

\* C5: termination of the gesture by the host during a drag session clears
\* the pressed state, invokes onSliderTouchEnd with the current (low, high)
\* and removes the pointer listener.
C5_TerminateReturnsToIdle ==
  [][(responder /\ isPressed /\ lastOp' = "terminate")
       => /\ ~isPressed'
          /\ calls' = <<Call("onSliderTouchEnd", Low, High, FALSE)>>
          /\ listener' = {}]_vars

\* a defined external low / high that differs from the one of the render
\* before
LowChanged == lowProp' # undefined /\ lowProp' # lowProp
HighChanged == highProp' # undefined /\ highProp' # highProp

\* C6: onValueChanged(byUser=false) is invoked only by a step in which an
\* external low or high changed or in which the layout metrics first became
\* known, and an external change with known layout invokes it exactly once.
C6_ResyncOnlyOnExternalChange ==
  [][/\ ResyncCalls' > 0
          => \/ LowChanged \/ HighChanged
             \/ (~LayoutKnown /\ LayoutKnown')
     /\ ((LowChanged \/ HighChanged) /\ LayoutKnown') => ResyncCalls' = 1]_vars

\* C7: with no drag active and the layout known, a change of the external
\* low (high) to another defined value writes its clamped value to the
\* store, sets the low (high) thumb to that value's position, invokes
\* onValueChanged(low, high, false) once and nothing else, and starts no
\* session.
C7_ExternalChangeResyncs ==
  [][(~responder /\ ~isPressed /\ LayoutKnown /\ (LowChanged \/ HighChanged))
       => /\ LowChanged => /\ Low' = clamp(Val(lowProp'), Min, Max)
                           /\ LowThumbSynced'
          /\ (HighChanged /\ ~disableRange)
               => /\ High' = clamp(Val(highProp'), Min, Max)
                  /\ HighThumbSynced'
          /\ calls' = <<Call("onValueChanged", Low', High', FALSE)>>
          /\ ~isPressed' /\ ~responder'
          /\ listener' = listener
          /\ gestureStateRef' = gestureStateRef]_vars

\* the host has just moved low to another value: the store and the thumb
\* follow and the change is reported
C7_Witness ==
  /\ lastOp = "low"
  /\ ~responder /\ ~isPressed /\ LayoutKnown
  /\ lowProp # undefined
  /\ Low = Val(lowProp) /\ Low > Min
  /\ LowThumbSynced
  /\ calls = <<Call("onValueChanged", Low, High, FALSE)>>

\* C8: with disableRange, high is max in the store and in every callback.
C8_HighPinnedToMax ==
  disableRange => /\ High = Max
                  /\ \A i \in 1..Len(calls) : calls[i].high = Max

\* a drag with disableRange and a highProp other than max: low moved
C8_Witness ==
  /\ disableRange
  /\ highProp # undefined /\ highProp # {Max}
  /\ DragUpdated
  /\ LayoutKnown
  /\ Low > Min

\* C9: while containerWidth or thumbWidth is zero no step sets a thumb
\* offset or invokes onValueChanged, and no touch step changes low or high.
C9_NoOpWithoutLayout ==
  [][(~LayoutKnown /\ ~LayoutKnown')
       => /\ lowThumbX' = lowThumbX
          /\ highThumbX' = highThumbX
          /\ ~Called("onValueChanged")'
          /\ (lastOp' \in {"grant", "move"} => inPropsRef' = inPropsRef)]_vars

\* C10: the step in which the layout metrics become known (whichever of the
\* two widths comes last) sets the low thumb, and in range mode the high
\* thumb, to the position of the current value for the new widths, and is
\* no touch.
C10_ResyncWhenLayoutKnown ==
  [][(~LayoutKnown /\ LayoutKnown')
       => /\ LowThumbSynced'
          /\ ~disableRange => HighThumbSynced'
          /\ lastOp' \in {"containerLayout", "thumbLayout"}
          /\ responder' = responder]_vars

\* the layout has just become known, the thumb width last, and no pointer
\* event was ever handled: both thumbs sit at their values' positions
C10_Witness ==
  /\ lastOp = "thumbLayout"
  /\ LayoutKnown
  /\ lastMapped = {}
  /\ ~disableRange
  /\ Low > Min /\ High < Max
  /\ LowThumbSynced /\ lowThumbX > 0
  /\ HighThumbSynced
  /\ ResyncCalls = 1

\* a gesture is in progress and its moves reach a listener
SessionLive == responder /\ ~disabled /\ listener # {}

\* the track a closure captured has room: 0 < thumbWidth < containerWidth
TrackKnown(c) == c.thumbWidth > 0 /\ c.containerWidth > c.thumbWidth

\* the value of the thumb the gesture ref names
ActiveValue == IF gestureStateRef.isLow THEN Low ELSE High

\* the centre of the thumb at value, for the current layout metrics
ThumbCentre(value) ==
  HalfThumb(thumbWidth) + PositionForValue(value, containerWidthRef, thumbWidth)

\* C11: in a single-thumb control, and in a range control whose sibling
\* bound does not bind, a pointer position left of the track is mapped to
\* min and one right of the track to max, and no pointer position is mapped
\* to a value outside [min, max].  (Stated for every state in which a
\* listener would handle a move, its track has room and the store holds
\* min <= low <= high <= max with high - low >= minRange, and for every
\* pointer position.)
C11_OffTrackClamped ==
  (SessionLive /\ TrackKnown(Val(listener)) /\ C2_DomainInvariant /\ RangeOK)
    => LET c == Val(listener)
       IN  \A x \in Xs :
             LET v == MappedValue(Cur, c, x * Scale)
             IN  /\ Min <= v /\ v <= Max
                 /\ (x < 0 /\ (disableRange \/ c.isLow \/ Low + minRange <= Min))
                      => v = Min
                 /\ (x > c.containerWidth
                       /\ (disableRange \/ ~c.isLow \/ High - minRange >= Max))
                      => v = Max

\* C12: with the layout known, a touch-down that starts a session and is
\* mapped to a value other than the selected thumb's current value invokes
\* onValueChanged(byUser=true) and leaves that thumb at the mapped value.
C12_TouchDownAlwaysUpdates ==
  [][(/\ lastOp' = "grant"
      /\ LayoutKnown
      /\ Called("onSliderTouchStart")'
      /\ lastMapped' # {IF gestureStateRef'.isLow THEN Low ELSE High})
       => /\ DragUpdated'
          /\ lastMapped' = {ActiveValue'}]_vars

\* C13: the moves and the release of a gesture whose touch-down had more
\* than one active touch (the component is enabled, owns the gesture and is
\* not pressed) change neither low nor high nor the pressed state and
\* invoke neither onValueChanged nor onSliderTouchEnd.
C13_MultiTouchIgnored ==
  [][(/\ ~disabled /\ responder /\ ~isPressed
      /\ lastOp' \in {"move", "release"})
       => /\ inPropsRef' = inPropsRef
          /\ ~isPressed'
          /\ ~Called("onValueChanged")'
          /\ ~Called("onSliderTouchEnd")']_vars

\* C14: a move of a session keeps the thumb chosen at touch-down: the
\* gesture ref and the listener name the same thumb before and after, a
\* move of a session on the low thumb leaves high and the high thumb's
\* offset alone, one of a session on the high thumb leaves low and the low
\* thumb's offset alone.
C14_ActiveThumbFixed ==
  [][(/\ responder /\ isPressed /\ listener # {}
      /\ lastOp' = "move")
       => /\ gestureStateRef'.isLow = gestureStateRef.isLow
          /\ Val(listener').isLow = gestureStateRef.isLow
          /\ gestureStateRef.isLow => (High' = High /\ highThumbX' = highThumbX)
          /\ ~gestureStateRef.isLow => (Low' = Low /\ lowThumbX' = lowThumbX)]_vars

\* a session on the high thumb has just dragged it down onto the low
\* thumb's bound: the pointer reached the other thumb and high was written
C14_Witness ==
  /\ lastOp = "move"
  /\ responder /\ isPressed
  /\ DragUpdated
  /\ ~gestureStateRef.isLow
  /\ ~disableRange
  /\ LayoutKnown
  /\ High = Low + minRange
  /\ High < Max

C16_MovesUseCurrentLayout ==
  (responder /\ isPressed /\ ~disabled /\ listener # {})
    => LET c == Val(listener)
           now == [c EXCEPT !.containerWidth = containerWidthRef,
                            !.thumbWidth = thumbWidth]
       IN  \A x \in Xs :
             MappedValue(Cur, c, x * Scale) = MappedValue(Cur, now, x * Scale)

\* C17: the release of a session clears the pressed state and invokes
\* onSliderTouchEnd once, and nothing else, with the current (low, high),
\* which is the pair the session last passed to onValueChanged(byUser=true),
\* or to onSliderTouchStart if it changed no value.
C17_ReleaseReportsLastPair ==
  [][(lastOp' = "release" /\ reported # {})
       => /\ ~isPressed'
          /\ calls' = <<Call("onSliderTouchEnd", Low', High', FALSE)>>
          /\ reported = {<<Low', High'>>}]_vars

\* C18: from a store with min <= low <= high <= max and
\* high - low >= minRange, the value an accepted drag update writes is
\* min + k * step for an integer k >= 0 (or max, the end of the domain).
C18_OnStepGrid ==
  [][(C2_DomainInvariant /\ RangeOK /\ DragUpdated')
       => \/ ActiveValue' = Max
          \/ (ActiveValue' >= Min /\ (ActiveValue' - Min) % step = 0)]_vars

\* C19: the touch callbacks are paired.  setPressed(true) goes with every
\* onSliderTouchStart and setPressed(false) with every onSliderTouchEnd, so
\* isPressed tells whether a start has not been ended: onSliderTouchEnd is
\* invoked only while a start is open, onSliderTouchStart only while none
\* is, and onValueChanged(byUser=true) only in a gesture with an open start.
C19_TouchCallbacksPaired ==
  [][/\ Called("onSliderTouchEnd")' => isPressed
     /\ Called("onSliderTouchStart")' => ~isPressed
     /\ DragUpdated' => (isPressed' /\ responder')]_vars

\* C20: an accepted drag update leaves the sibling thumb's value and offset
\* alone, and the pair it passes to onValueChanged(byUser=true) is the
\* content of the store after the update.
C20_OnlyActiveThumbChanges ==
  [][DragUpdated'
       => /\ gestureStateRef'.isLow => (High' = High /\ highThumbX' = highThumbX)
          /\ ~gestureStateRef'.isLow => (Low' = Low /\ lowThumbX' = lowThumbX)
          /\ \A i \in 1..Len(calls') :
               (calls'[i].cb = "onValueChanged" /\ calls'[i].byUser)
                 => (calls'[i].low = Low' /\ calls'[i].high = High')]_vars

\* a touch-down on the low thumb of a range control has just moved it: the
\* new pair was reported and the high thumb still sits at its value
C20_Witness ==
  /\ lastOp = "grant"
  /\ gestureStateRef.isLow
  /\ ~disableRange
  /\ LayoutKnown
  /\ Low > Min /\ High < Max
  /\ HighThumbSynced /\ highThumbX > 0
  /\ calls = <<Call("onSliderTouchStart", Low, High, FALSE),
               Call("onValueChanged", Low, High, TRUE)>>

====
